---------------------------- MODULE Spec2Model ----------------------------
(***************************************************************************)
(* A model of the airline revenue-management repository:                   *)
(*   src/dynamic_allocation.py  booking limits <-> protection levels and   *)
(*                              the request_seat acceptance rule           *)
(*   src/emsr.py                the EMSR-a, EMSR-b and EMSR-revise         *)
(*                              protection-level heuristics                *)
(*                                                                         *)
(* Python lists are sequences; the class of rank k (0-based in the source) *)
(* is element k+1 of the sequence.                                         *)
(***************************************************************************)
EXTENDS Integers, Sequences, FiniteSets, TLC

VARIABLES
    \* ---- the request loop of dynamic_allocation.py ----
    pc,             \* "start" before get_booking_limit, then "serving";
                    \* "raised" once an exception has left the loop
    level,          \* number of fare classes the caller works with
    res_lvl,        \* protection levels: the input, then re-derived per request
    booking_limit,  \* the caller's booking-limit list
    status,         \* result of the last request_seat call
    seat_class,     \* arguments of the last request_seat call
    seats_num,
    passed_limit,   \* contents of the list passed to the last call, before it
    input_after,    \* contents of that same list object after the call
    initial_lvl,    \* history: the protection levels the caller started from
    initial_limit,  \* history: the vector get_booking_limit produced
    accepted,       \* history: seats accepted so far, per requested class
    valid_only,     \* history: every call so far had 0 <= seat_class < level
    shadow_lvl,     \* history: the machine PL' = min(PL, C - s) run beside
    \* ---- conversions applied back to back ----
    num_type,       \* "int" or "float": the Python type of the entries
    conv_orig,      \* the vector the caller started from
    conv_kind,      \* what conv_cur currently is: "res_lvl" or "booking_limit"
    conv_cur,       \* the vector after conv_steps conversions
    conv_steps,
    \* ---- emsr.py ----
    mu, sigma, demand_prices, cap,  \* the inputs of one problem instance
    res_lvl_a,      \* return of emsr_a, or a status string
    res_lvl_b,      \* return of emsr_b, or a status string
    revise_ret,     \* alpha numerator -> return of emsr_revise
    uncapped_b,     \* history: emsr_b's values before min(cap, .)
    uncapped_rev    \* history: alpha numerator -> emsr_revise's values before min

alloc_vars == <<pc, level, res_lvl, booking_limit, status, seat_class, seats_num,
                passed_limit, input_after, initial_lvl, initial_limit, accepted,
                valid_only, shadow_lvl>>
conv_vars  == <<num_type, conv_orig, conv_kind, conv_cur, conv_steps>>
emsr_vars  == <<mu, sigma, demand_prices, cap, res_lvl_a, res_lvl_b,
                revise_ret, uncapped_b, uncapped_rev>>
vars == <<alloc_vars, conv_vars, emsr_vars>>

----------------------------------------------------------------------------
(* Bounds of the model *)

\* number of fare classes in the request loop
Levels == 3
\* the capacity the request loop starts from
MaxCap == 3
\* largest number of seats in one request
MaxSeats == 2
\* significand width of the scaled-down binary floating point (53 in CPython)
MantissaBits == 3
\* largest entry of a vector handed to the conversions
MaxVal == 10
\* longest vector handed to the conversions
MaxConvLen == 3

----------------------------------------------------------------------------
(* Python numbers *)

Max(a, b) == IF a >= b THEN a ELSE b
Min(a, b) == IF a <= b THEN a ELSE b
Abs(x) == IF x < 0 THEN -x ELSE x

RECURSIVE Pow2(_)
Pow2(e) == IF e = 0 THEN 1 ELSE 2 * Pow2(e - 1)

\* exponent e with  x < 2^(MantissaBits + e), least such e >= 0  (x >= 0)
RECURSIVE FExp(_, _)
FExp(x, e) == IF x < Pow2(MantissaBits + e) THEN e ELSE FExp(x, e + 1)

\* round-to-nearest, ties-to-even, to MantissaBits significant bits: what a
\* binary float operation does with its exact result
FRound(x) ==
    LET a    == Abs(x)
        e    == FExp(a, 0)
        unit == Pow2(e)
        q    == a \div unit
        r    == a % unit
        up   == (2 * r > unit) \/ (2 * r = unit /\ q % 2 = 1)
        m    == (IF up THEN q + 1 ELSE q) * unit
    IN  IF x < 0 THEN -m ELSE m

\* a - b on Python numbers of type num_type: exact on int, rounded on float
PySub(a, b) == IF num_type = "float" THEN FRound(a - b) ELSE a - b

\* the values a float can hold, within the model's range
FloatVals == {v \in 0..MaxVal : FRound(v) = v}

----------------------------------------------------------------------------
(* src/dynamic_allocation.py *)

\* mutant: the capacity is read from the last entry
get_protection_levels_last(bl, levels) ==
    LET max_demand == bl[Len(bl)]
    IN  [k \in 1..Len(bl) |->
            IF k < Len(bl) THEN PySub(max_demand, bl[k + 1]) ELSE max_demand]

\* get_protection_levels(booking_limit, levels); levels is not read
get_protection_levels(bl, levels) ==
    LET max_demand == bl[1]
    IN  [k \in 1..Len(bl) |->
            IF k < Len(bl) THEN PySub(max_demand, bl[k + 1]) ELSE max_demand]

\* mutant: the entries come from res_lvl[1:], one place off
get_booking_limit_shifted(rl, levels) ==
    LET max_demand == rl[levels]
    IN  [k \in 1..Len(rl) |->
            IF k = 1 THEN max_demand ELSE PySub(max_demand, rl[k])]

\* get_booking_limit(res_lvl, levels): the capacity is res_lvl[levels-1], the
\* other entries come from res_lvl[0:-1]
get_booking_limit(rl, levels) ==
    LET max_demand == rl[levels]
    IN  [k \in 1..Len(rl) |->
            IF k = 1 THEN max_demand ELSE PySub(max_demand, rl[k - 1])]

\* Python's list[i]: -len <= i < len is in range, a negative i counts from the end
InRange(list, i) == -Len(list) <= i /\ i < Len(list)
PyIndex(list, i) == IF i >= 0 THEN list[i + 1] ELSE list[Len(list) + i + 1]


\* mutant: the request is checked against the capacity, not its own class
request_status_capacity(bl, class, seats) ==
    IF bl[1] < seats THEN "Reject" ELSE "Accept"

\* mutant: a request for exactly the limit is rejected
request_status_strict(bl, class, seats) ==
    IF PyIndex(bl, class) <= seats THEN "Reject" ELSE "Accept"

\* status = 'Reject' if booking_limit[seat_class] < seats_num else 'Accept'
request_status(bl, class, seats) ==
    IF PyIndex(bl, class) < seats THEN "Reject" ELSE "Accept"

\* mutant: no floor at 0
reduced_limit_no_floor(bl, seats) ==
    [k \in 1..Len(bl) |-> PySub(bl[k], seats)]

\* mutant: only the capacity entry is reduced, as request_seat's docstring shows
reduced_limit_capacity_only(bl, seats) ==
    [k \in 1..Len(bl) |->
        IF k > 1 THEN bl[k] ELSE IF bl[k] > seats THEN PySub(bl[k], seats) ELSE 0]

\* [item - seats_num if item > seats_num else 0 for item in booking_limit]
reduced_limit(bl, seats) ==
    [k \in 1..Len(bl) |-> IF bl[k] > seats THEN PySub(bl[k], seats) ELSE 0]

\* mutant: the update is not guarded by the status
request_seat_unguarded(bl, level_arg, class, seats) ==
    IF ~InRange(bl, class)
    THEN [status |-> "IndexError", booking_limit |-> bl, input_after |-> bl]
    ELSE [status        |-> request_status(bl, class, seats),
          booking_limit |-> reduced_limit(bl, seats),
          input_after   |-> bl]

\* request_seat(booking_limit, level, seat_class, seats_num).  booking_limit[
\* seat_class] raises IndexError before anything is assigned; the update builds
\* a new list, so the list passed in keeps its contents; level is not read
request_seat(bl, level_arg, class, seats) ==
    IF ~InRange(bl, class)
    THEN [status |-> "IndexError", booking_limit |-> bl, input_after |-> bl]
    ELSE LET st == request_status(bl, class, seats)
         IN  [status        |-> st,
              booking_limit |-> IF st = "Accept" THEN reduced_limit(bl, seats)
                                ELSE bl,
              input_after   |-> bl]

----------------------------------------------------------------------------
(* Floating-point values of src/emsr.py.  A finite value is kept in hundredths *)
(* of a seat; nan and the two infinities are values of their own.              *)

Fin(x) == [kind |-> "fin", v |-> x]
NaN    == [kind |-> "nan", v |-> 0]
PosInf == [kind |-> "inf", v |-> 1]
NegInf == [kind |-> "inf", v |-> -1]
Seats(n) == Fin(100 * n)

\* x / y rounded to the nearest integer, y > 0
RoundDiv(x, y) == (2 * x + y) \div (2 * y)

\* a + b
FAdd(a, b) ==
    IF a.kind = "nan" \/ b.kind = "nan" THEN NaN
    ELSE IF a.kind = "inf" /\ b.kind = "inf" THEN (IF a.v = b.v THEN a ELSE NaN)
    ELSE IF a.kind = "inf" THEN a
    ELSE IF b.kind = "inf" THEN b
    ELSE Fin(a.v + b.v)

\* s * z for a finite s >= 0 given in hundredths and z in hundredths
FMul(s, z) ==
    IF z.kind = "nan" THEN NaN
    ELSE IF z.kind = "inf" THEN (IF s = 0 THEN NaN ELSE z)
    ELSE Fin(RoundDiv(s * z.v, 100))

\* a / (1 - num/den) with 0 <= num < den
FDivOneMinus(a, num, den) ==
    IF a.kind = "fin" THEN Fin(RoundDiv(a.v * den, den - num)) ELSE a

\* a < b: False as soon as one side is nan
FLess(a, b) ==
    IF a.kind = "nan" \/ b.kind = "nan" THEN FALSE
    ELSE IF a.kind = "inf" THEN a.v < 0 /\ b # a
    ELSE IF b.kind = "inf" THEN b.v > 0
    ELSE a.v < b.v

\* a <= b
FLessEq(a, b) ==
    IF a.kind = "nan" \/ b.kind = "nan" THEN FALSE ELSE a = b \/ FLess(a, b)

\* Python's min(a, b): b when b < a, else a
PyMin(a, b) == IF FLess(b, a) THEN b ELSE a

\* floor(100 * sqrt(x)) for an integer x >= 0
RECURSIVE SqrtBetween(_, _, _)
SqrtBetween(x, lo, hi) ==
    IF lo >= hi THEN lo
    ELSE LET mid == (lo + hi + 1) \div 2
         IN  IF mid * mid <= 10000 * x THEN SqrtBetween(x, mid, hi)
             ELSE SqrtBetween(x, lo, mid - 1)
Sqrt100(x) == SqrtBetween(x, 0, 100 * x)

\* the standard normal quantile in hundredths, sampled at the midpoints of
\* twenty cells of (0, 1)
PpfTable == <<-196, -144, -115, -93, -76, -60, -45, -32, -19, -6,
              6, 19, 32, 45, 60, 76, 93, 115, 144, 196>>

\* scipy's norm.ppf(num / den), den > 0: nan outside [0, 1], -inf at 0, inf at 1
norm_ppf(num, den) ==
    IF num < 0 \/ num > den THEN NaN
    ELSE IF num = 0 THEN NegInf
    ELSE IF num = den THEN PosInf
    ELSE Fin(PpfTable[(num * Len(PpfTable)) \div den + 1])

\* calculate_protect_single_item(scalar_mu, scalar_sigma, prob), with the sigma
\* in hundredths and prob = num / den
calculate_protect_single_item(scalar_mu, sigma100, num, den) ==
    FAdd(Seats(scalar_mu), FMul(sigma100, norm_ppf(num, den)))

RECURSIVE SumTo(_, _)
SumTo(f, k) == IF k = 0 THEN 0 ELSE f[k] + SumTo(f, k - 1)

----------------------------------------------------------------------------
(* src/emsr.py.  A call returns [raised, value]: raised is "none" or the       *)
(* exception, value the returned float.  j and i are the source's 0-based      *)
(* indices.                                                                    *)

Raise(e) == [raised |-> e, value |-> NaN]
Return(x) == [raised |-> "none", value |-> x]

\* the term of class i in calculate_protect_revenue_a(j, ...), with
\* prob = 1. - demand_prices[j+1] * 1.0 / demand_prices[i]
protect_term_a(i, j, m, s, prices) ==
    calculate_protect_single_item(m[i + 1], 100 * s[i + 1],
                                  prices[i + 1] - prices[j + 2], prices[i + 1])

RECURSIVE revenue_sum_a(_, _, _, _, _)
revenue_sum_a(i, j, m, s, prices) ==
    IF i < 0 THEN Fin(0)
    ELSE FAdd(revenue_sum_a(i - 1, j, m, s, prices),
              protect_term_a(i, j, m, s, prices))

\* calculate_protect_revenue_a(j, mu, sigma, demand_prices, cap)
calculate_protect_revenue_a(j, m, s, prices, c) ==
    IF \E i \in 0..j : prices[i + 1] = 0 THEN Raise("ZeroDivisionError")
    ELSE Return(PyMin(revenue_sum_a(j, j, m, s, prices), Seats(c)))

\* the value both calculate_protect_revenue_b and calculate_protect_revenue_revise
\* compute before capping: calculate_protect_single_item(new_mu, new_sigma,
\* 1 - demand_prices[j] / new_price) over the classes 0..j-1
protect_aggregate(j, m, s, prices) ==
    LET new_mu   == SumTo(m, j)
        sigma100 == Sqrt100(SumTo([i \in 1..j |-> s[i] * s[i]], j))
        weighted == SumTo([i \in 1..j |-> m[i] * prices[i]], j)
    IN  IF new_mu = 0 \/ weighted = 0 THEN Raise("ZeroDivisionError")
        ELSE Return(calculate_protect_single_item(
                        new_mu, sigma100,
                        weighted - prices[j + 1] * new_mu, weighted))

\* calculate_protect_revenue_b(j, mu, sigma, demand_prices, cap)
calculate_protect_revenue_b(j, m, s, prices, c) ==
    LET agg == protect_aggregate(j, m, s, prices)
    IN  IF agg.raised # "none" THEN agg
        ELSE Return(PyMin(Seats(c), agg.value))

\* mutant: the value is multiplied by (1 - alpha)
uncapped_revise_times(j, m, s, prices, anum, aden) ==
    LET agg == protect_aggregate(j, m, s, prices)
    IN  IF agg.raised # "none" THEN agg
        ELSE Return(IF agg.value.kind = "fin"
                    THEN Fin(RoundDiv(agg.value.v * (aden - anum), aden))
                    ELSE agg.value)

\* the aggregate value divided by (1 - alpha), alpha = anum / aden
uncapped_revise(j, m, s, prices, anum, aden) ==
    LET agg == protect_aggregate(j, m, s, prices)
    IN  IF agg.raised # "none" THEN agg
        ELSE Return(FDivOneMinus(agg.value, anum, aden))

\* calculate_protect_revenue_revise(j, mu, sigma, demand_prices, cap, alpha)
calculate_protect_revenue_revise(j, m, s, prices, c, anum, aden) ==
    LET pre == uncapped_revise(j, m, s, prices, anum, aden)
    IN  IF pre.raised # "none" THEN pre
        ELSE Return(PyMin(Seats(c), pre.value))

\* a list comprehension over calls: the first exception leaves it, else the
\* list of the returned values
Collect(calls) ==
    IF \E k \in 1..Len(calls) : calls[k].raised # "none"
    THEN [raised |-> "ZeroDivisionError", value |-> <<>>]
    ELSE [raised |-> "none", value |-> [k \in 1..Len(calls) |-> calls[k].value]]

\* emsr_a: j in range(0, demand_classes - 1)
emsr_a(m, s, prices, demand_classes, c) ==
    Collect([k \in 1..demand_classes - 1 |->
                calculate_protect_revenue_a(k - 1, m, s, prices, c)])

\* emsr_b: j in range(1, demand_classes)
emsr_b(m, s, prices, demand_classes, c) ==
    Collect([k \in 1..demand_classes - 1 |->
                calculate_protect_revenue_b(k, m, s, prices, c)])

\* emsr_revise: j in range(1, demand_classes)
emsr_revise(m, s, prices, demand_classes, c, anum, aden) ==
    Collect([k \in 1..demand_classes - 1 |->
                calculate_protect_revenue_revise(k, m, s, prices, c, anum, aden)])

----------------------------------------------------------------------------
(* The request loop: get_booking_limit once, then request_seat per request *)

\* the position in the list that a Python index names
Position(list, i) == IF i >= 0 THEN i + 1 ELSE Len(list) + i + 1

AllocIdle ==
    /\ pc = "off"
    /\ level = 0
    /\ initial_lvl = <<>>
    /\ res_lvl = <<>>
    /\ booking_limit = <<>>
    /\ status = "none"
    /\ seat_class = 0
    /\ seats_num = 0
    /\ passed_limit = <<>>
    /\ input_after = <<>>
    /\ initial_limit = <<>>
    /\ accepted = <<>>
    /\ valid_only = TRUE
    /\ shadow_lvl = <<>>

ConvIdle ==
    /\ conv_orig = <<>>
    /\ conv_kind = "none"
    /\ conv_cur = <<>>
    /\ conv_steps = 0

EmsrIdle ==
    /\ mu = <<>>
    /\ sigma = <<>>
    /\ demand_prices = <<>>
    /\ cap = 0
    /\ res_lvl_a = "none"
    /\ res_lvl_b = "none"
    /\ revise_ret = <<>>
    /\ uncapped_b = "none"
    /\ uncapped_rev = <<>>

\* the __main__ block's run: its protection levels and its requests
\* (class, seats), zip(request_class_list, request_num_list)
DemoLevel == 5
DemoResLvl == <<27, 88, 96, 100, 100>>
DemoRequests == {<<4, 2>>, <<1, 5>>, <<1, 1>>, <<3, 1>>, <<2, 3>>, <<2, 4>>,
                 <<2, 2>>, <<2, 1>>, <<1, 2>>}

\* the requests a caller may make.  In the general case the class index is any
\* of 0..level-1, level (past the end: IndexError, as is an index below -level)
\* or -1 (the last class, counted from the end), with any seat count; in the
\* demo the recorded ones
Requests ==
    IF initial_lvl = DemoResLvl
    THEN DemoRequests
    ELSE (-1..level) \X (0..MaxSeats)

\* the caller holds a vector of non-negative protection levels whose last
\* entry is the capacity and the largest (the others in any order): any such
\* vector of Levels entries with capacity MaxCap, or the __main__ block's
AllocInit ==
    /\ pc = "start"
    /\ \/ /\ level = Levels
          /\ res_lvl \in {v \in [1..Levels -> 0..MaxCap] : v[Levels] = MaxCap}
       \/ /\ level = DemoLevel
          /\ res_lvl = DemoResLvl
    /\ initial_lvl = res_lvl
    /\ booking_limit = <<>>
    /\ status = "none"
    /\ seat_class = 0
    /\ seats_num = 0
    /\ passed_limit = <<>>
    /\ input_after = <<>>
    /\ initial_limit = <<>>
    /\ accepted = [k \in 1..level |-> 0]
    /\ valid_only = TRUE
    /\ shadow_lvl = <<>>

Init ==
    /\ AllocInit
    /\ num_type = "int"
    /\ ConvIdle
    /\ EmsrIdle

\* booking_limit = get_booking_limit(res_lvl, level)
Convert ==
    /\ pc = "start"
    /\ pc' = "serving"
    /\ booking_limit' = get_booking_limit(res_lvl, level)
    /\ initial_limit' = booking_limit'
    /\ shadow_lvl' = res_lvl
    /\ UNCHANGED <<level, res_lvl, status, seat_class, seats_num, passed_limit,
                   input_after, initial_lvl, accepted, valid_only>>
    /\ UNCHANGED <<conv_vars, emsr_vars>>

\* booking_limit, status = request_seat(booking_limit, level, seat_class,
\* seats_num), then the protection levels are re-derived for the report.  An
\* IndexError is not caught: it ends the loop with nothing assigned
RequestSeat(class, seats) ==
    /\ pc = "serving"
    /\ \E r \in {request_seat(booking_limit, level, class, seats)} :
           /\ status' = r.status
           /\ booking_limit' = r.booking_limit
           /\ input_after' = r.input_after
           /\ res_lvl' = IF r.status = "IndexError" THEN res_lvl
                         ELSE get_protection_levels(r.booking_limit, level)
           /\ accepted' = IF r.status = "Accept"
                          THEN [accepted EXCEPT
                                   ![Position(booking_limit, class)] = @ + seats]
                          ELSE accepted
           /\ shadow_lvl' = IF r.status = "Accept"
                            THEN [k \in 1..Len(shadow_lvl) |->
                                     Min(shadow_lvl[k],
                                         shadow_lvl[Len(shadow_lvl)] - seats)]
                            ELSE shadow_lvl
    /\ valid_only' = (valid_only /\ class \in 0..level - 1)
    /\ passed_limit' = booking_limit
    /\ seat_class' = class
    /\ seats_num' = seats
    /\ pc' = IF InRange(booking_limit, class) THEN "serving" ELSE "raised"
    /\ UNCHANGED <<level, initial_lvl, initial_limit>>
    /\ UNCHANGED <<conv_vars, emsr_vars>>

Next ==
    \/ Convert
    \/ \E rq \in Requests : RequestSeat(rq[1], rq[2])

Spec == Init /\ [][Next]_vars

----------------------------------------------------------------------------
(* Claims about the request loop, checked under Spec *)

NonNegative(v) == \A k \in 1..Len(v) : v[k] >= 0
\* the spec's invariant of a booking-limit vector
WellFormed(bl) == NonNegative(bl) /\ \A k \in 1..Len(bl) : bl[1] >= bl[k]
NonDecreasing(v) == \A k \in 1..Len(v) - 1 : v[k] <= v[k + 1]

RECURSIVE SumFrom(_, _)
SumFrom(f, k) == IF k > Len(f) THEN 0 ELSE f[k] + SumFrom(f, k + 1)

Served == pc = "serving" /\ status \in {"Accept", "Reject"}
ValidClass == seat_class \in 0..level - 1

\* C1 as stated: from a non-negative vector with BookingLimit[0] >=
\* BookingLimit[k], the seats accepted for classes k..n-1 never exceed the
\* initial BookingLimit[k], for every class k.
C1_NestedLimitEveryClass ==
    (pc = "serving" /\ valid_only /\ WellFormed(initial_limit)) =>
        \A k \in 1..level : SumFrom(accepted, k) <= initial_limit[k]

\* C1 amended: the bound holds for every class k whose initial limit is at least
\* the initial limit of every lower class j > k; that is class 0 always, and
\* every class when the vector is non-increasing.
C1_NestedLimitDominantClass ==
    (pc = "serving" /\ valid_only /\ WellFormed(initial_limit)) =>
        \A k \in 1..level :
            (\A j \in k..level : initial_limit[k] >= initial_limit[j]) =>
                SumFrom(accepted, k) <= initial_limit[k]

\* a lower class has sold exactly its nested limit
C1_Witness ==
    /\ pc = "serving" /\ valid_only
    /\ WellFormed(initial_limit)
    /\ \E k \in 2..level :
          /\ \A j \in k..level : initial_limit[k] >= initial_limit[j]
          /\ initial_limit[k] > 0
          /\ accepted[k] > 0
          /\ SumFrom(accepted, k) = initial_limit[k]

C5_InvalidClassIndexReported ==
    (pc \in {"serving", "raised"} /\ status # "none" /\ ~ValidClass) =>
        (status = "IndexError" /\ booking_limit = passed_limit)

\* C8: on Reject the returned vector is the input, entry by entry, and the
\* input list is not modified.
C8_RejectIsNoOp ==
    (pc = "serving" /\ status = "Reject") =>
        (booking_limit = passed_limit /\ input_after = passed_limit)

\* a request for more than zero seats was rejected against a vector that still
\* has seats
C8_Witness ==
    /\ pc = "serving" /\ status = "Reject"
    /\ seats_num > 0
    /\ \E k \in 1..level : passed_limit[k] > seats_num

\* C9: starting from get_booking_limit of non-negative, non-decreasing
\* protection levels, after any requests with class in 0..n-1 every entry of
\* the booking limits is >= 0 and BookingLimit[0] >= BookingLimit[k].
C9_LimitsStayWellFormed ==
    (pc = "serving" /\ valid_only /\ NonDecreasing(initial_lvl)) =>
        WellFormed(booking_limit)

\* an accepted request has floored a lower class at 0 while capacity remains
C9_Witness ==
    /\ pc = "serving" /\ valid_only /\ NonDecreasing(initial_lvl)
    /\ status = "Accept" /\ seats_num > 0
    /\ booking_limit[1] > 0
    /\ \E k \in 2..level : passed_limit[k] > 0 /\ passed_limit[k] < seats_num
                           /\ booking_limit[k] = 0

----------------------------------------------------------------------------
(* The two conversions applied back to back, on int and on float vectors *)

\* number of conversions a run applies
MaxConvSteps == 2

\* the vectors of the docstrings and of the recorded run
DocVectors == {<<100, 73, 72, 4, 0>>, <<27, 88, 96, 100, 100>>,
               <<100, 73, 12, 4, 0>>}

ConvInputs ==
    LET vals == IF num_type = "float" THEN FloatVals ELSE 0..MaxVal
    IN  UNION {[1..n -> vals] : n \in 1..MaxConvLen}
          \cup (IF num_type = "int" THEN DocVectors ELSE {})

ConvInit ==
    /\ AllocIdle
    /\ EmsrIdle
    /\ num_type \in {"int", "float"}
    /\ conv_orig \in ConvInputs
    /\ conv_kind \in {"res_lvl", "booking_limit"}
    /\ conv_cur = conv_orig
    /\ conv_steps = 0

\* conv_cur = get_booking_limit(conv_cur, levels) with levels = len(conv_cur)
ConvGetBookingLimit ==
    /\ conv_steps < MaxConvSteps
    /\ conv_kind = "res_lvl"
    /\ conv_cur' = get_booking_limit(conv_cur, Len(conv_cur))
    /\ conv_kind' = "booking_limit"
    /\ conv_steps' = conv_steps + 1
    /\ UNCHANGED <<num_type, conv_orig, alloc_vars, emsr_vars>>

\* conv_cur = get_protection_levels(conv_cur, levels) with levels = len(conv_cur)
ConvGetProtectionLevels ==
    /\ conv_steps < MaxConvSteps
    /\ conv_kind = "booking_limit"
    /\ conv_cur' = get_protection_levels(conv_cur, Len(conv_cur))
    /\ conv_kind' = "res_lvl"
    /\ conv_steps' = conv_steps + 1
    /\ UNCHANGED <<num_type, conv_orig, alloc_vars, emsr_vars>>

ConvNext == ConvGetBookingLimit \/ ConvGetProtectionLevels

SpecConv == ConvInit /\ [][ConvNext]_vars

\* the capacity of the vector the run started from: its last entry when it holds
\* protection levels, its first when it holds booking limits
OrigIsResLvl == (conv_kind = "res_lvl") <=> (conv_steps % 2 = 0)
OrigCapacity == IF OrigIsResLvl THEN conv_orig[Len(conv_orig)] ELSE conv_orig[1]
\* every difference capacity - entry of the original vector is computed exactly
DifferencesExact ==
    \A k \in 1..Len(conv_orig) :
        PySub(OrigCapacity, conv_orig[k]) = OrigCapacity - conv_orig[k]

\* C3 as stated: for every non-negative vector, converting and converting back
\* (levels = n) returns the vector, in both directions.
C3_RoundTripEveryNumber ==
    (conv_steps = 2 /\ NonNegative(conv_orig)) => conv_cur = conv_orig

\* C3 amended: the round trip returns the vector when every difference
\* capacity - entry is computed exactly, which is always so on ints; a float
\* difference is rounded, and the entry then comes back changed.
C3_RoundTripExactDifferences ==
    (conv_steps = 2 /\ NonNegative(conv_orig) /\ DifferencesExact) =>
        conv_cur = conv_orig

\* a round trip in each direction over a vector with distinct entries
C3_Witness ==
    /\ conv_steps = 2 /\ DifferencesExact
    /\ Len(conv_orig) = 3
    /\ conv_orig[1] # conv_orig[2] /\ conv_orig[2] # conv_orig[3]
    /\ conv_orig[1] # conv_orig[3]
    /\ conv_orig[2] > 0
    /\ num_type = "float"

DocCallDone(v) ==
    /\ num_type = "int"
    /\ conv_orig = v
    /\ conv_steps = 1
    /\ conv_kind = "res_lvl"

----------------------------------------------------------------------------
(* One problem instance handed to the three estimators, in any order *)

\* alpha takes the values a / AlphaDen, a in 0..AlphaDen-1
AlphaDen == 3
ClassCounts == {2, 3}
MuVals == {1, 5}
SigmaVals == {0, 3}
PriceVals == {0, 3, 4}
CapVals == {4}

NotCalled == [raised |-> "not called", value |-> <<>>]

EmsrInit ==
    /\ AllocIdle
    /\ ConvIdle
    /\ num_type = "float"
    /\ \E n \in ClassCounts :
          /\ mu \in [1..n -> MuVals]
          /\ sigma \in [1..n -> SigmaVals]
          /\ demand_prices \in [1..n -> PriceVals]
    /\ cap \in CapVals
    /\ res_lvl_a = NotCalled
    /\ res_lvl_b = NotCalled
    /\ uncapped_b = NotCalled
    /\ revise_ret = [a \in 0..AlphaDen - 1 |-> NotCalled]
    /\ uncapped_rev = [a \in 0..AlphaDen - 1 |-> NotCalled]

\* res_lvl_a = emsr_a(demand_mus, demand_sigmas, prices, levels, cap)
CallEmsrA ==
    /\ res_lvl_a' = emsr_a(mu, sigma, demand_prices, Len(mu), cap)
    /\ UNCHANGED <<mu, sigma, demand_prices, cap, res_lvl_b, revise_ret,
                   uncapped_b, uncapped_rev>>
    /\ UNCHANGED <<alloc_vars, conv_vars>>

\* res_lvl_b = emsr_b(demand_mus, demand_sigmas, prices, levels, cap)
CallEmsrB ==
    /\ res_lvl_b' = emsr_b(mu, sigma, demand_prices, Len(mu), cap)
    /\ uncapped_b' = Collect([k \in 1..Len(mu) - 1 |->
                                protect_aggregate(k, mu, sigma, demand_prices)])
    /\ UNCHANGED <<mu, sigma, demand_prices, cap, res_lvl_a, revise_ret,
                   uncapped_rev>>
    /\ UNCHANGED <<alloc_vars, conv_vars>>

\* res_lvl_revise = emsr_revise(demand_mus, demand_sigmas, prices, levels, cap,
\* alpha) with alpha = a / AlphaDen
CallEmsrRevise(a) ==
    /\ revise_ret' = [revise_ret EXCEPT ![a] =
           emsr_revise(mu, sigma, demand_prices, Len(mu), cap, a, AlphaDen)]
    /\ uncapped_rev' = [uncapped_rev EXCEPT ![a] =
           Collect([k \in 1..Len(mu) - 1 |->
                       uncapped_revise(k, mu, sigma, demand_prices, a, AlphaDen)])]
    /\ UNCHANGED <<mu, sigma, demand_prices, cap, res_lvl_a, res_lvl_b,
                   uncapped_b>>
    /\ UNCHANGED <<alloc_vars, conv_vars>>

EmsrNext ==
    \/ CallEmsrA
    \/ CallEmsrB
    \/ \E a \in 0..AlphaDen - 1 : CallEmsrRevise(a)

SpecEmsr == EmsrInit /\ [][EmsrNext]_vars

Returned(r) == r.raised = "none"

\* the quantile argument of the aggregate class against class j is in (0, 1)
Admissible(j) ==
    LET new_mu   == SumTo(mu, j)
        weighted == SumTo([i \in 1..j |-> mu[i] * demand_prices[i]], j)
        num      == weighted - demand_prices[j + 1] * new_mu
    IN  new_mu > 0 /\ weighted > 0 /\ 0 < num /\ num < weighted

\* C6 as stated: for admissible inputs and alpha1 <= alpha2, every entry of
\* emsr_revise before the cap is >= the same entry at alpha1 and >= emsr_b's
\* entry before the cap.
C6_AlphaNeverDecreases ==
    \A j \in 1..Len(mu) - 1 :
        Admissible(j) =>
            \A a1 \in 0..AlphaDen - 1 : \A a2 \in a1..AlphaDen - 1 :
                (Returned(uncapped_rev[a1]) /\ Returned(uncapped_rev[a2])) =>
                    /\ FLessEq(uncapped_rev[a1].value[j], uncapped_rev[a2].value[j])
                    /\ Returned(uncapped_b) =>
                          FLessEq(uncapped_b.value[j], uncapped_rev[a2].value[j])

\* C6 amended: that holds for the entries whose aggregate value (emsr_revise at
\* alpha = 0, emsr_b before the cap) is >= 0; an entry whose aggregate value is
\* negative never increases with alpha.
C6_AlphaScalesAwayFromZero ==
    \A j \in 1..Len(mu) - 1 :
        Admissible(j) =>
            \A agg \in {protect_aggregate(j, mu, sigma, demand_prices).value} :
                \A a1 \in 0..AlphaDen - 1 : \A a2 \in a1..AlphaDen - 1 :
                    (Returned(uncapped_rev[a1]) /\ Returned(uncapped_rev[a2])) =>
                        LET lo == uncapped_rev[a1].value[j]
                            hi == uncapped_rev[a2].value[j]
                        IN  IF FLessEq(Fin(0), agg)
                            THEN /\ FLessEq(lo, hi)
                                 /\ FLessEq(agg, hi)
                                 /\ Returned(uncapped_b) =>
                                       FLessEq(uncapped_b.value[j], hi)
                            ELSE /\ FLessEq(hi, lo)
                                 /\ FLessEq(hi, agg)

\* emsr_b and emsr_revise at two alphas have run on an admissible instance with
\* a positive aggregate value, and the larger alpha gave the larger entry
C6_Witness ==
    \E a1 \in 0..AlphaDen - 1, a2 \in 0..AlphaDen - 1, j \in 1..Len(mu) - 1 :
        /\ a1 < a2
        /\ Returned(uncapped_rev[a1]) /\ Returned(uncapped_rev[a2])
        /\ Returned(uncapped_b)
        /\ Admissible(j)
        /\ FLess(Fin(0), uncapped_b.value[j])
        /\ FLess(uncapped_rev[a1].value[j], uncapped_rev[a2].value[j])
        /\ FLess(uncapped_b.value[j], uncapped_rev[a2].value[j])

\* C7: every entry of the vectors emsr_a, emsr_b and emsr_revise return is
\* <= capacity, whatever the inputs.
C7_CapacityCap ==
    /\ Returned(res_lvl_a) =>
          \A j \in 1..Len(res_lvl_a.value) : FLessEq(res_lvl_a.value[j], Seats(cap))
    /\ Returned(res_lvl_b) =>
          \A j \in 1..Len(res_lvl_b.value) : FLessEq(res_lvl_b.value[j], Seats(cap))
    /\ \A a \in 0..AlphaDen - 1 :
          Returned(revise_ret[a]) =>
              \A j \in 1..Len(revise_ret[a].value) :
                  FLessEq(revise_ret[a].value[j], Seats(cap))

=============================================================================
